---- MODULE Spec2Model ----
(***************************************************************************)
(* State-machine model of the Douyin danmu recorder.                       *)
(*                                                                         *)
(*   src/src/danmu_recorder.py   class DouyinDanmuRecorder                 *)
(*   src/src/douyin_protobuf.py  parse_danmu_message, create_ack_frame,    *)
(*                               create_heartbeat_frame                    *)
(*                                                                         *)
(* Four execution contexts run the recorder: the caller of start(), the    *)
(* websocket thread (run_forever and its callbacks), the heartbeat thread  *)
(* started by _on_open and the segment_checker thread started by start().  *)
(* stop() and set_video_filename() are called from outside at any time.    *)
(* The threads interleave as CPython lets them: a step ends at each open,   *)
(* write or close of a file, at each acquire or release of file_lock, at    *)
(* each sleep and at each write of a shared field that another thread      *)
(* reads; code between two such points is one step.                        *)
(***************************************************************************)
EXTENDS Integers, Sequences, FiniteSets, TLC

(***************************************************************************)
(* Bounds of the model.                                                    *)
(***************************************************************************)
\* inbound frames delivered by the server over a run
MaxFrames == 2
\* the wall clock runs over 1..MaxTime
MaxTime == 3
\* calls of stop()
MaxStops == 2
\* calls of set_video_filename()
MaxRenames == 1
\* the wall clock of the script runs over 1..DemoMaxTime: three backoff waits
DemoMaxTime == 7
\* inbound frames delivered to the script over a run
DemoMaxFrames == 1
\* failures of open() injected
MaxIOErrors == 1
\* the wall clock of the heartbeat runs over 1..HbMaxTime: two heartbeats
HbMaxTime == 12
\* the wall clock of the liveness check runs over 1..LvMaxTime: the check of
\* t = 70 is made after more than 60 time units of streaming
LvMaxTime == 62

(***************************************************************************)
(* Program constants.                                                      *)
(***************************************************************************)
max_retry == 3
\* time.sleep(2) in _on_close
RetryDelay == 2
\* time.sleep(1) in segment_checker and _heartbeat
PollInterval == 1
\* t = 9 at the start of _heartbeat
HeartbeatStart == 9
\* t % 10 == 0 sends a heartbeat
HeartbeatEvery == 10
\* _heartbeat, line 555: t > 30 and now - self.last_danmu_time > 60
WarnAfterTicks == 30
WarnAfterSilence == 60
\* only_danmu_fixed.py: self.retry < 3 and time.sleep(2) in _on_close
DemoMaxRetry == 3
DemoRetryDelay == 2

None == "None"
\* a time field holding None; the clock starts at 1, so 0 is never a time
NoTime == 0
VideoNames == {"v1", "v2"}
\* generate_filename: Path(video_filename).stem + ".xml", one-to-one on names
XmlOf(v) == IF v = "v1" THEN "v1.xml" ELSE "v2.xml"
\* only_danmu_fixed.py names its file after the time of the first start()
StampName == "stamp.xml"
FileNames == {XmlOf(v) : v \in VideoNames} \cup {StampName}
SegmentTimes == {1}

(***************************************************************************)
(* File contents: a file is a sequence of lines.                           *)
(***************************************************************************)
Line(k, c, off, ts) == [k |-> k, c |-> c, off |-> off, ts |-> ts]
XmlDecl == Line("xml", 0, 0, 0)
XmlStyle == Line("xsl", 0, 0, 0)
RootOpen == Line("i", 0, 0, 0)
RootClose == Line("/i", 0, 0, 0)
\* f"  <d p=\"{round(second, 2)},...,{int(timestamp * 1000)},...\" user=...>...</d>\n"
DLine(c, second, timestamp) == Line("d", c, second, timestamp)

Header == <<XmlDecl, XmlStyle, RootOpen>>
\* what create_danmu_file writes
Template == Header \o <<RootClose>>

\* open(path, 'w'): the file exists from now on and is empty
Truncated == <<>>
\* write() + close() of a handle opened at offset 0: the lines written replace
\* the lines at the same positions, what another handle wrote beyond them stays
Overwrite(old, new) ==
    IF Len(old) > Len(new) THEN new \o SubSeq(old, Len(new) + 1, Len(old)) ELSE new

\* lines 371-380 of write_danmu: insert before the last line when it is </i>,
\* else append the line and a closing tag
InsertLine(content_lines, danmu_line) ==
    IF Len(content_lines) > 0 /\ content_lines[Len(content_lines)] = RootClose
    THEN SubSeq(content_lines, 1, Len(content_lines) - 1)
           \o <<danmu_line, RootClose>>
    ELSE content_lines \o <<danmu_line, RootClose>>

(***************************************************************************)
(* Inbound frames.  A frame is the PushFrame the server sent: ok says      *)
(* whether the envelope, the gzip body and the Response parse; msgs is the *)
(* messagesList.  A message's payload parses (good) or not; a chat         *)
(* message's user has a nickName (nick) or not.                            *)
(***************************************************************************)
Msg(method, good, nick, c) == [method |-> method, good |-> good, nick |-> nick, c |-> c]
Chat(c) == Msg("WebcastChatMessage", TRUE, TRUE, c)
Other == Msg("WebcastGiftMessage", TRUE, TRUE, 0)

\* the comment carried by message j of frame i
Cid(i, j) == 10 * i + j

FrameShapes == {"bad", "chat", "chat2", "other", "ack", "chatack"}
MkFrame(shape, i) ==
    [ok |-> shape # "bad",
     needAck |-> shape \in {"ack", "chatack"},
     logid |-> i,
     internalExt |-> "ext",
     msgs |-> CASE shape = "chat" -> <<Chat(Cid(i, 1))>>
                [] shape = "chat2" -> <<Chat(Cid(i, 1)), Chat(Cid(i, 2))>>
                [] shape = "chatack" -> <<Other, Chat(Cid(i, 1))>>
                [] shape = "other" -> <<Other>>
                [] shape = "ack" -> <<Other>>
                [] OTHER -> <<>>]
NoFrame == MkFrame("bad", 0)

\* a faulty scan, for comparison: the method of the message is not looked at
FirstAny(msgs, j) == IF j > Len(msgs) THEN 0 ELSE j

RECURSIVE FirstChat(_, _)
\* index of the first WebcastChatMessage of msgs at or after j, 0 when none
FirstChat(msgs, j) ==
    IF j > Len(msgs) THEN 0
    ELSE IF msgs[j].method = "WebcastChatMessage" THEN j
    ELSE FirstChat(msgs, j + 1)

\* a faulty result of a failed decode, for comparison: the ack request dict
\* in place of None
FailureAsAck == [kind |-> "ack", nick |-> FALSE, c |-> 0, needAck |-> TRUE,
                 logid |-> 0, internalExt |-> ""]

NoneData == [kind |-> "none", nick |-> FALSE, c |-> 0, needAck |-> FALSE,
             logid |-> 0, internalExt |-> ""]
\* parse_danmu_message: None on any failure; the dict of the FIRST chat message
\* of the batch; else the ack dict when needAck; else None
parse_danmu_message(message) ==
    IF ~message.ok THEN NoneData
    ELSE LET j == FirstChat(message.msgs, 1) IN
         IF j > 0
         THEN IF ~message.msgs[j].good THEN NoneData
              ELSE [kind |-> "chat", nick |-> message.msgs[j].nick,
                    c |-> message.msgs[j].c, needAck |-> message.needAck,
                    logid |-> message.logid, internalExt |-> message.internalExt]
         ELSE IF message.needAck
              THEN [kind |-> "ack", nick |-> FALSE, c |-> 0, needAck |-> TRUE,
                    logid |-> message.logid, internalExt |-> message.internalExt]
              ELSE NoneData

RECURSIVE ChatsOf(_, _)
\* the comments of the WebcastChatMessage records of a decoded batch, in order
ChatsOf(msgs, j) ==
    IF j > Len(msgs) THEN <<>>
    ELSE (IF msgs[j].method = "WebcastChatMessage" THEN <<msgs[j].c>> ELSE <<>>)
           \o ChatsOf(msgs, j + 1)

\* create_ack_frame: a PushFrame whose payloadType is assigned 'ack' (line 82)
\* and then internal_ext (line 84); its payload is left unset
create_ack_frame(logid, internal_ext) ==
    [payloadType |-> internal_ext, payload |-> "", logid |-> logid]
\* create_heartbeat_frame: only payloadType is set
create_heartbeat_frame == [payloadType |-> "hb", payload |-> "", logid |-> 0]

(***************************************************************************)
(* State.                                                                  *)
(***************************************************************************)
VARIABLES
    \* fields of DouyinDanmuRecorder
    video_filename, start_time_t, ws, stop_signal, danmu_amount,
    last_danmu_time, filename, retry, segment_index, segment_start_time,
    current_segment_file, file_lock,
    \* the output directory: contents, existing files, opens for writing
    files, fexists, wopens,
    \* the wall clock
    now,
    \* the socket: its state, WebSocketApp.keep_running, the frames sent, the
    \* connections established, the calls of ws.close()
    sock, keep_running, sent, nsockets, ncloses,
    \* the contexts: the caller of start(), the caller of stop(), the
    \* websocket thread, the heartbeat thread, the segment_checker thread
    pcC, c, pcStop, pcW, w, pcH, h, pcS, s,
    \* history: frames delivered, comments decoded from the socket, comments
    \* passed to write_danmu, files close_danmu_file reported complete, calls
    \* of stop() and of set_video_filename()
    nframes, decoded, submitted, finalized, nstops, nrenames,
    \* history: the shapes of the frames delivered, in order, and the I/O
    \* errors raised by the file system
    delivered, ioerrors,
    \* history: the time each frame was delivered at, and the number of
    \* warnings _heartbeat has logged at line 556
    arrived, warned,
    \* history: the comments passed to write_danmu since the last step of a
    \* rotation, whether the call in progress overlaps a rotation, the last
    \* rotation, the state in which stop() was first called
    run, taint, rot, st0

segfields == <<segment_index, segment_start_time, current_segment_file>>
fields == <<video_filename, start_time_t, ws, stop_signal, danmu_amount,
            last_danmu_time, filename, retry, segfields, file_lock>>
fsvars == <<files, fexists, wopens>>
netvars == <<sock, keep_running, sent, nsockets, ncloses>>
callvars == <<pcC, c, pcStop>>
wsvars == <<pcW, w>>
hbvars == <<pcH, h>>
segvars == <<pcS, s>>
ctx == <<callvars, wsvars, hbvars, segvars>>
hist0 == <<nframes, decoded, submitted, finalized, nstops, nrenames, delivered,
           ioerrors, arrived, warned>>
\* hist0 without warned
hist1 == <<nframes, decoded, submitted, finalized, nstops, nrenames, delivered,
           ioerrors, arrived>>
aux == <<run, taint, rot, st0>>
hist == <<hist0, aux>>
vars == <<fields, fsvars, now, netvars, ctx, hist>>

\* locals of _on_message / write_danmu on the websocket thread
\* (before is history: the <d> lines of the active file when write_danmu was
\* called)
W0 == [message |-> NoFrame, data |-> NoneData, now |-> NoTime, second |-> 0,
       filepath |-> None, content_lines |-> <<>>, wake |-> NoTime,
       before |-> <<>>]
\* locals of segment_checker / start_new_segment
S0 == [wake |-> NoTime, filename |-> None]
\* locals of _heartbeat
H0 == [t |-> HeartbeatStart, wake |-> NoTime]
\* arguments of start(), and whether the lookup found the room live
\* (room_json is not None and status == 2)
C0 == [enable_segment |-> FALSE, segment_time |-> 1, live |-> FALSE]
\* no rotation yet
Rot0 == [st |-> "none", pre |-> None, post |-> None, k |-> 0, k1 |-> 0, at |-> NoTime]
\* stop() not called yet
St0 == [in |-> "never", seg |-> None, nfin |-> 0]

\* __init__ (lines 47-73); video_filename is the constructor's argument
Init ==
    /\ video_filename \in {None, "v1"}
    /\ start_time_t = NoTime
    /\ ws = None
    /\ stop_signal = FALSE
    /\ danmu_amount = 0
    /\ last_danmu_time = 0
    /\ filename = None
    /\ retry = 0
    /\ segment_index = 0
    /\ segment_start_time = NoTime
    /\ current_segment_file = None
    /\ file_lock = "free"
    /\ files = [n \in FileNames |-> <<>>]
    /\ fexists = {}
    /\ wopens = [n \in FileNames |-> 0]
    /\ now = 1
    /\ sock = "none"
    /\ keep_running = FALSE
    /\ sent = <<>>
    /\ nsockets = 0
    /\ ncloses = 0
    /\ pcC = "idle" /\ c = C0
    /\ pcStop = "idle"
    /\ pcW = "unstarted" /\ w = W0
    /\ pcH = "unstarted" /\ h = H0
    /\ pcS = "unstarted" /\ s = S0
    /\ nframes = 0
    /\ decoded = <<>>
    /\ submitted = <<>>
    /\ finalized = <<>>
    /\ nstops = 0
    /\ nrenames = 0
    /\ delivered = <<>>
    /\ ioerrors = 0
    /\ arrived = <<>>
    /\ warned = 0
    /\ run = <<>>
    /\ taint = FALSE
    /\ rot = Rot0
    /\ st0 = St0

(***************************************************************************)
(* The file system and the helpers that touch it.                          *)
(***************************************************************************)
\* open(filepath, 'w')
OpenW(n) ==
    /\ files' = [files EXCEPT ![n] = Truncated]
    /\ fexists' = fexists \cup {n}
    /\ wopens' = [wopens EXCEPT ![n] = @ + 1]
\* file.write(...) and the close at the end of the with block
WriteClose(n, lines) ==
    /\ files' = [files EXCEPT ![n] = Overwrite(@, lines)]
    /\ UNCHANGED <<fexists, wopens>>
\* a faulty close_danmu_file, for comparison: the closing tag is appended, as
\* _on_close of only_danmu_fixed.py does (lines 357-359)
close_appends_tag(n, caller) ==
    IF n # None /\ n \in fexists
    THEN /\ finalized' = Append(finalized, [file |-> n, by |-> caller])
         /\ files' = [files EXCEPT ![n] = @ \o <<RootClose>>]
         /\ wopens' = [wopens EXCEPT ![n] = @ + 1]
         /\ UNCHANGED fexists
    ELSE UNCHANGED <<finalized, fsvars>>
\* close_danmu_file: logs that the file is complete when it exists, and
\* touches no file
close_danmu_file(n, caller) ==
    /\ finalized' = IF n # None /\ n \in fexists
                    THEN Append(finalized, [file |-> n, by |-> caller])
                    ELSE finalized
    /\ UNCHANGED fsvars
\* a faulty test, for comparison: the grace period t > 30 is missing
SilentNoGrace(t) ==
    \/ last_danmu_time = 0
    \/ now - last_danmu_time > WarnAfterSilence

\* _heartbeat, line 555: t > 30 and now - self.last_danmu_time > 60.  now is
\* time.time(), seconds since 1970, while the clock here starts at 1: with
\* last_danmu_time still 0 (line 59) the difference exceeds 60
Silent(t) ==
    /\ t > WarnAfterTicks
    /\ \/ last_danmu_time = 0
       \/ now - last_danmu_time > WarnAfterSilence
\* generate_filename: the segment index is ignored
generate_filename(segment_index_) ==
    IF video_filename # None THEN XmlOf(video_filename) ELSE None

\* write_danmu, the offset of lines 349-354
Second(timestamp) ==
    IF current_segment_file # None /\ segment_start_time # NoTime
    THEN timestamp - segment_start_time
    ELSE timestamp - start_time_t

\* write_danmu, the path of lines 356-364, None when there is no file to write
FilePath ==
    IF current_segment_file # None THEN current_segment_file
    ELSE IF filename # None THEN filename
    ELSE None

\* the <d> lines of a file, and the comments they carry
DLinesOf(f) == SelectSeq(f, LAMBDA l : l.k = "d")
CommentsOf(f) == [i \in 1..Len(DLinesOf(f)) |-> DLinesOf(f)[i].c]

\* a call of write_danmu is in progress on the websocket thread
InFlight ==
    pcW \in {"wd_create_open", "wd_create_write", "wd_begin", "wd_trunc",
             "wd_write", "wd_end"}
\* a call of start_new_segment is in progress on the segment thread
Rotating == pcS \in {"sns_name", "sns_open", "sns_write", "sns_time"}

(***************************************************************************)
(* History of the calls of write_danmu and start_new_segment.  run lists   *)
(* the comments passed to write_danmu since the last step of a rotation,   *)
(* by calls that no rotation overlapped; named tells whether a file name   *)
(* could be generated for the comment.  rot follows a rotation that ran    *)
(* with no write_danmu in progress: the file and the last comment before   *)
(* it (pre, k), the instant it ended (at), the next comment written and    *)
(* the file it was written to (k1, post).                                  *)
(***************************************************************************)
\* write_danmu is called
AppendCalled ==
    /\ taint' = Rotating
    /\ run' = run
    /\ rot' = IF rot.st = "running" THEN [rot EXCEPT !.st = "dirty"] ELSE rot
\* write_danmu is called and returns at line 335: no file name yet
AppendDropped(comment) ==
    /\ taint' = taint
    /\ run' = IF Rotating THEN run
              ELSE Append(run, [c |-> comment, named |-> FALSE])
    /\ rot' = IF rot.st = "running" THEN [rot EXCEPT !.st = "dirty"] ELSE rot
\* write_danmu returns
AppendReturned(comment) ==
    /\ taint' = FALSE
    /\ run' = IF taint THEN run
              ELSE Append(run, [c |-> comment, named |-> TRUE])
    /\ rot' = IF rot.st = "clean" /\ ~taint
              THEN [rot EXCEPT !.st = "done", !.k1 = comment,
                               !.post = current_segment_file]
              ELSE rot
\* a step of start_new_segment
RotationStep ==
    /\ taint' = InFlight
    /\ run' = <<>>
\* the last comment of the active file, 0 when there is none
LastComment ==
    IF current_segment_file # None /\ current_segment_file \in fexists
       /\ Len(CommentsOf(files[current_segment_file])) > 0
    THEN CommentsOf(files[current_segment_file])
           [Len(CommentsOf(files[current_segment_file]))]
    ELSE 0
\* start_new_segment is called
RotationCalled ==
    /\ RotationStep
    /\ rot' = [st |-> IF InFlight \/ LastComment = 0 THEN "dirty" ELSE "running",
               pre |-> current_segment_file, post |-> None,
               k |-> LastComment, k1 |-> 0, at |-> NoTime]
\* start_new_segment returns
RotationReturned(created) ==
    /\ RotationStep
    /\ rot' = IF rot.st = "running" /\ created
              THEN [rot EXCEPT !.st = "clean", !.at = now]
              ELSE [rot EXCEPT !.st = "dirty"]
\* where the recorder is when stop() is called
Phase ==
    CASE pcC = "resolving" -> "resolving"
      [] pcW = "run_forever" -> "connecting"
      [] pcW \in {"recv", "om_ack"} \/ InFlight -> "streaming"
      [] pcW = "on_close" -> "closing"
      [] pcW = "backoff" -> "backoff"
      [] OTHER -> "ended"

(***************************************************************************)
(* The wall clock.                                                         *)
(***************************************************************************)
Tick ==
    /\ now < MaxTime
    /\ now' = now + 1
    /\ UNCHANGED <<fields, fsvars, netvars, ctx, hist>>

(***************************************************************************)
(* set_video_filename (lines 275-278), called by the video recorder.       *)
(***************************************************************************)
set_video_filename ==
    /\ nrenames < MaxRenames
    /\ \E v \in VideoNames :
         /\ v # video_filename
         /\ video_filename' = v
    /\ nrenames' = nrenames + 1
    /\ UNCHANGED <<start_time_t, ws, stop_signal, danmu_amount, last_danmu_time,
                   filename, retry, segfields, file_lock, fsvars, now, netvars,
                   ctx, nframes, decoded, submitted, finalized, nstops, delivered,
                   ioerrors, arrived, warned, aux>>

(***************************************************************************)
(* start (lines 392-463).                                                  *)
(***************************************************************************)
\* the call, up to the await of get_live_state_json
StartCall(segment_options) ==
    /\ pcC = "idle"
    /\ \E e \in segment_options, st \in SegmentTimes :
         c' = [enable_segment |-> e, segment_time |-> st, live |-> FALSE]
    /\ pcC' = "resolving"
    /\ UNCHANGED <<fields, fsvars, now, netvars, pcStop, wsvars, hbvars,
                   segvars, hist>>
start_call == StartCall(BOOLEAN)

\* a faulty start(), for comparison: the returns of lines 401 and 410 are
\* missing and the connection is made all the same
start_without_return ==
    /\ pcC = "resolving"
    /\ start_time_t' = now
    /\ ws' = "app"
    /\ sock' = "created"
    /\ keep_running' = TRUE
    /\ pcW' = "run_forever"
    /\ pcS' = IF c.enable_segment THEN "loop" ELSE pcS
    /\ pcC' = "returned"
    /\ UNCHANGED <<video_filename, stop_signal, danmu_amount, last_danmu_time,
                   filename, retry, segfields, file_lock, fsvars, now, sent,
                   nsockets, ncloses, c, pcStop, w, hbvars, s, hist>>

\* lines 398-410: the lookup failed (None) or the room is not live
start_not_live ==
    /\ pcC = "resolving"
    /\ pcC' = "returned"
    /\ UNCHANGED <<fields, fsvars, now, netvars, c, pcStop, wsvars, hbvars,
                   segvars, hist>>

\* lines 412-459: the room is live; start_time, the segment fields, the
\* WebSocketApp, the websocket thread and, with enable_segment, the segment
\* thread
start_live ==
    /\ pcC = "resolving"
    /\ start_time_t' = now
    /\ IF c.enable_segment
       THEN segment_index' = 0 /\ segment_start_time' = NoTime
       ELSE UNCHANGED <<segment_index, segment_start_time>>
    /\ ws' = "app"
    /\ sock' = "created"
    /\ keep_running' = TRUE
    /\ pcW' = "run_forever"
    /\ pcS' = IF c.enable_segment THEN "loop" ELSE pcS
    /\ pcC' = "returned"
    /\ c' = [c EXCEPT !.live = TRUE]
    /\ UNCHANGED <<video_filename, stop_signal, danmu_amount, last_danmu_time,
                   filename, retry, current_segment_file, file_lock, fsvars,
                   now, sent, nsockets, ncloses, pcStop, w, hbvars, s, hist>>

(***************************************************************************)
(* stop (lines 465-470), called from outside once start() has been called. *)
(***************************************************************************)
\* line 468
stop_flag ==
    /\ pcStop = "idle"
    /\ pcC # "idle"
    /\ nstops < MaxStops
    /\ stop_signal' = TRUE
    /\ pcStop' = "flagged"
    /\ nstops' = nstops + 1
    /\ st0' = IF nstops = 0
              THEN [in |-> Phase, seg |-> FilePath, nfin |-> Len(finalized)]
              ELSE st0
    /\ UNCHANGED <<video_filename, start_time_t, ws, danmu_amount,
                   last_danmu_time, filename, retry, segfields, file_lock,
                   fsvars, now, netvars, pcC, c, wsvars, hbvars, segvars,
                   nframes, decoded, submitted, finalized, nrenames, delivered,
                   ioerrors, arrived, warned, run, taint, rot>>

\* lines 469-470: if self.ws: self.ws.close(), which clears keep_running
stop_close ==
    /\ pcStop = "flagged"
    /\ pcStop' = "idle"
    /\ IF ws # None
       THEN keep_running' = FALSE /\ ncloses' = ncloses + 1
       ELSE UNCHANGED <<keep_running, ncloses>>
    /\ UNCHANGED <<fields, fsvars, now, sock, sent, nsockets, pcC, c, wsvars,
                   hbvars, segvars, hist>>

(***************************************************************************)
(* The websocket thread: run_websocket (lines 441-442) runs run_forever,   *)
(* which connects, calls _on_open, then _on_message for each frame, and    *)
(* _on_close when the connection ends.  The transport is the one of the    *)
(* interface: close() is the cancellation, it makes the receive loop end.  *)
(***************************************************************************)
\* the connection is established; _on_open (lines 474-477) starts the
\* heartbeat thread
_on_open ==
    /\ pcW = "run_forever"
    /\ keep_running
    /\ sock' = "open"
    /\ nsockets' = nsockets + 1
    /\ pcH' = "run"
    /\ h' = H0
    /\ pcW' = "recv"
    /\ UNCHANGED <<fields, fsvars, now, keep_running, sent, ncloses, callvars,
                   w, segvars, hist>>

\* the connection ends: it could not be established (_on_error logs), the
\* server closed it, or close() was called
run_forever_end ==
    /\ pcW \in {"run_forever", "recv"}
    /\ sock' = "closed"
    /\ keep_running' = FALSE
    /\ pcW' = "on_close"
    /\ UNCHANGED <<fields, fsvars, now, sent, nsockets, ncloses, callvars, w,
                   hbvars, segvars, hist>>

(***************************************************************************)
(* _on_message (lines 479-515) and write_danmu (lines 318-390), which it   *)
(* calls at line 494 with timestamp = now.                                 *)
(***************************************************************************)
\* line 324: hasattr(self, 'segment_index') and self.segment_index is not None.
\* __init__ sets segment_index to 0 and nothing sets it to None.
SegmentMode == TRUE

\* A frame arrives.  Lines 482-494: the time stamp, the parse, the dispatch;
\* for a chat message lines 322-345 of write_danmu: with no file yet and no
\* video filename the comment is dropped, with a video filename the file name
\* is stored (line 328, line 340 in the plain mode).  A frame that is neither
\* a chat nor an ack request only sets last_danmu_time (lines 510-512).  A
\* chat dict whose user has no nickName raises KeyError, caught at line 514.
OnMessage(shapes) ==
    /\ pcW = "recv"
    /\ keep_running
    /\ nframes < MaxFrames
    /\ nframes' = nframes + 1
    /\ \E shape \in shapes :
         LET message == MkFrame(shape, nframes + 1)
             parsed_data == parse_danmu_message(message)
             chat == parsed_data.kind = "chat" /\ parsed_data.nick
             nofile == filename = None /\ current_segment_file = None
             fn == generate_filename(segment_index)
             w1 == [W0 EXCEPT !.message = message, !.data = parsed_data,
                              !.now = now,
                              !.before = IF FilePath # None /\ FilePath \in fexists
                                         THEN DLinesOf(files[FilePath])
                                         ELSE <<>>]
         IN
         /\ delivered' = Append(delivered, shape)
         /\ arrived' = Append(arrived, now)
         /\ decoded' = IF message.ok THEN decoded \o ChatsOf(message.msgs, 1)
                       ELSE decoded
         /\ submitted' = IF chat THEN Append(submitted, parsed_data.c)
                         ELSE submitted
         /\ CASE chat /\ nofile /\ fn # None ->
                   /\ w' = [w1 EXCEPT !.filepath = fn]
                   /\ IF SegmentMode
                      THEN current_segment_file' = fn /\ filename' = filename
                      ELSE filename' = fn
                             /\ current_segment_file' = current_segment_file
                   /\ pcW' = "wd_create_open"
                   /\ AppendCalled
                   /\ UNCHANGED last_danmu_time
              [] chat /\ nofile /\ fn = None ->
                   /\ w' = W0
                   /\ last_danmu_time' = now
                   /\ pcW' = "recv"
                   /\ AppendDropped(parsed_data.c)
                   /\ UNCHANGED <<current_segment_file, filename>>
              [] chat /\ ~nofile ->
                   /\ w' = w1
                   /\ pcW' = "wd_begin"
                   /\ AppendCalled
                   /\ UNCHANGED <<current_segment_file, filename,
                                  last_danmu_time>>
              [] parsed_data.kind = "chat" /\ ~parsed_data.nick ->
                   /\ w' = W0
                   /\ pcW' = "recv"
                   /\ UNCHANGED <<current_segment_file, filename,
                                  last_danmu_time, run, taint, rot>>
              [] parsed_data.kind = "ack" ->
                   /\ w' = w1
                   /\ pcW' = "om_ack"
                   /\ UNCHANGED <<current_segment_file, filename,
                                  last_danmu_time, run, taint, rot>>
              [] OTHER ->
                   /\ w' = W0
                   /\ last_danmu_time' = now
                   /\ pcW' = "recv"
                   /\ UNCHANGED <<current_segment_file, filename, run, taint,
                                  rot>>
    /\ UNCHANGED <<video_filename, start_time_t, ws, stop_signal, danmu_amount,
                   retry, segment_index, segment_start_time, file_lock, fsvars,
                   now, netvars, callvars, hbvars, segvars, finalized, nstops,
                   nrenames, ioerrors, warned, st0>>
_on_message == OnMessage(FrameShapes)

\* lines 500-512: the ack is sent (a send on a closed socket raises and the
\* exception is swallowed), then last_danmu_time = now
_on_message_ack ==
    /\ pcW = "om_ack"
    /\ sent' = IF sock = "open" /\ keep_running
               THEN Append(sent, create_ack_frame(w.data.logid, w.data.internalExt))
               ELSE sent
    /\ last_danmu_time' = w.now
    /\ w' = W0
    /\ pcW' = "recv"
    /\ UNCHANGED <<video_filename, start_time_t, ws, stop_signal, danmu_amount,
                   filename, retry, segfields, file_lock, fsvars, now, sock,
                   keep_running, nsockets, ncloses, callvars, hbvars, segvars,
                   hist>>

\* create_danmu_file, line 286: open(filepath, 'w')
write_danmu_create_open ==
    /\ pcW = "wd_create_open"
    /\ OpenW(w.filepath)
    /\ pcW' = "wd_create_write"
    /\ UNCHANGED <<fields, now, netvars, callvars, w, hbvars, segvars, hist>>

\* create_danmu_file, lines 287-290: the template is written and the file
\* closed; lines 330-331: segment_start_time = time.time(), segment_index += 1
write_danmu_create_write ==
    /\ pcW = "wd_create_write"
    /\ WriteClose(w.filepath, Template)
    /\ IF SegmentMode
       THEN segment_start_time' = now /\ segment_index' = segment_index + 1
       ELSE UNCHANGED <<segment_start_time, segment_index>>
    /\ pcW' = "wd_begin"
    /\ UNCHANGED <<video_filename, start_time_t, ws, stop_signal, danmu_amount,
                   last_danmu_time, filename, retry, current_segment_file,
                   file_lock, now, netvars, callvars, w, hbvars, segvars, hist>>

\* lines 347-380: the lock is taken, the offset computed, the file read and the
\* line inserted in memory.  Without a file to write write_danmu returns; a
\* file that does not exist is not written, and the comment is counted (lines
\* 386-387).
write_danmu_begin ==
    /\ pcW = "wd_begin"
    /\ file_lock = "free"
    /\ IF FilePath = None
       THEN /\ last_danmu_time' = w.now
            /\ w' = W0
            /\ pcW' = "recv"
            /\ AppendReturned(w.data.c)
            /\ UNCHANGED <<danmu_amount, file_lock>>
       ELSE IF FilePath \notin fexists
       THEN /\ danmu_amount' = danmu_amount + 1
            /\ last_danmu_time' = w.now
            /\ w' = W0
            /\ pcW' = "recv"
            /\ AppendReturned(w.data.c)
            /\ UNCHANGED file_lock
       ELSE /\ file_lock' = "ws"
            /\ w' = [w EXCEPT !.second = Second(w.now),
                              !.filepath = FilePath,
                              !.content_lines =
                                  InsertLine(files[FilePath],
                                             DLine(w.data.c, Second(w.now), w.now))]
            /\ pcW' = "wd_trunc"
            /\ UNCHANGED <<danmu_amount, last_danmu_time, run, taint, rot>>
    /\ UNCHANGED <<video_filename, start_time_t, ws, stop_signal, filename,
                   retry, segfields, fsvars, now, netvars, callvars, hbvars,
                   segvars, hist0, st0>>

\* line 383: open(filepath, 'w')
write_danmu_trunc ==
    /\ pcW = "wd_trunc"
    /\ OpenW(w.filepath)
    /\ pcW' = "wd_write"
    /\ UNCHANGED <<fields, now, netvars, callvars, w, hbvars, segvars, hist>>

\* line 384: writelines and the close of the file
write_danmu_write ==
    /\ pcW = "wd_write"
    /\ WriteClose(w.filepath, w.content_lines)
    /\ pcW' = "wd_end"
    /\ UNCHANGED <<fields, now, netvars, callvars, w, hbvars, segvars, hist>>

\* lines 386-387, the release of the lock, and lines 495 and 510-512
write_danmu_end ==
    /\ pcW = "wd_end"
    /\ danmu_amount' = danmu_amount + 1
    /\ last_danmu_time' = w.now
    /\ file_lock' = "free"
    /\ w' = W0
    /\ pcW' = "recv"
    /\ AppendReturned(w.data.c)
    /\ UNCHANGED <<video_filename, start_time_t, ws, stop_signal, filename,
                   retry, segfields, fsvars, now, netvars, callvars, hbvars,
                   segvars, hist0, st0>>

\* open(filepath, 'w') raises OSError, at line 286 (create_danmu_file) or at
\* line 383: no file is created or truncated, the with block releases the
\* lock when it is held, the exception is logged at lines 389-390 and
\* write_danmu returns; _on_message goes on with lines 495 and 510-512
write_danmu_ioerror ==
    /\ pcW \in {"wd_create_open", "wd_trunc"}
    /\ ioerrors < MaxIOErrors
    /\ ioerrors' = ioerrors + 1
    /\ file_lock' = IF pcW = "wd_trunc" THEN "free" ELSE file_lock
    /\ last_danmu_time' = w.now
    /\ w' = W0
    /\ pcW' = "recv"
    /\ taint' = FALSE
    /\ run' = run
    /\ rot' = IF rot.st \in {"running", "clean"}
              THEN [rot EXCEPT !.st = "dirty"]
              ELSE rot
    /\ UNCHANGED <<video_filename, start_time_t, ws, stop_signal, danmu_amount,
                   filename, retry, segfields, fsvars, now, netvars, callvars,
                   hbvars, segvars, nframes, decoded, submitted, finalized,
                   nstops, nrenames, delivered, arrived, warned, st0>>

(***************************************************************************)
(* _on_close (lines 521-538).                                              *)
(***************************************************************************)
_on_close ==
    /\ pcW = "on_close"
    /\ IF stop_signal
       THEN /\ close_danmu_file(FilePath, "_on_close")
            /\ pcW' = "done"
            /\ UNCHANGED <<retry, w>>
       ELSE IF retry < max_retry
       THEN /\ retry' = retry + 1
            /\ w' = [w EXCEPT !.wake = now + RetryDelay]
            /\ pcW' = "backoff"
            /\ UNCHANGED <<finalized, fsvars>>
       ELSE /\ pcW' = "done"
            /\ UNCHANGED <<retry, w, finalized, fsvars>>
    /\ UNCHANGED <<video_filename, start_time_t, ws, stop_signal, danmu_amount,
                   last_danmu_time, filename, segfields, file_lock, now,
                   netvars, callvars, hbvars, segvars, nframes, decoded,
                   submitted, nstops, nrenames, delivered, ioerrors, arrived,
                   warned, aux>>

\* line 537: time.sleep(2) is over; _on_close returns and the thread ends
_on_close_wake ==
    /\ pcW = "backoff"
    /\ now >= w.wake
    /\ pcW' = "done"
    /\ UNCHANGED <<fields, fsvars, now, netvars, callvars, w, hbvars, segvars,
                   hist>>

(***************************************************************************)
(* _heartbeat (lines 540-559), on its own thread.                          *)
(***************************************************************************)
\* a faulty loop, for comparison: the test t % 10 == 0 of line 544 is missing
\* and a heartbeat is sent on every turn
heartbeat_every_turn ==
    /\ pcH = "run"
    /\ now >= h.wake
    /\ IF ~stop_signal /\ keep_running
       THEN /\ sent' = IF sock = "open"
                       THEN Append(sent, create_heartbeat_frame)
                       ELSE sent
            /\ warned' = IF h.t % HeartbeatEvery = 0 /\ Silent(h.t)
                         THEN warned + 1
                         ELSE warned
            /\ h' = [t |-> h.t + 1, wake |-> now + PollInterval]
            /\ pcH' = "run"
       ELSE /\ pcH' = "done"
            /\ UNCHANGED <<sent, h, warned>>
    /\ UNCHANGED <<fields, fsvars, now, sock, keep_running, nsockets, ncloses,
                   callvars, wsvars, segvars, hist1, aux>>

\* one turn of the loop: the test of line 543, then every 10th tick a
\* heartbeat is sent (a failed send is swallowed), t += 1, time.sleep(1)
_heartbeat ==
    /\ pcH = "run"
    /\ now >= h.wake
    /\ IF ~stop_signal /\ keep_running
       THEN /\ sent' = IF h.t % HeartbeatEvery = 0 /\ sock = "open"
                       THEN Append(sent, create_heartbeat_frame)
                       ELSE sent
            /\ warned' = IF h.t % HeartbeatEvery = 0 /\ Silent(h.t)
                         THEN warned + 1
                         ELSE warned
            /\ h' = [t |-> h.t + 1, wake |-> now + PollInterval]
            /\ pcH' = "run"
       ELSE /\ pcH' = "done"
            /\ UNCHANGED <<sent, h, warned>>
    /\ UNCHANGED <<fields, fsvars, now, sock, keep_running, nsockets, ncloses,
                   callvars, wsvars, segvars, hist1, aux>>

(***************************************************************************)
(* segment_checker (lines 449-454) and start_new_segment (lines 300-316),  *)
(* on the segment thread.  Neither takes file_lock.                        *)
(***************************************************************************)
\* lines 450-451: while not self.stop_signal: time.sleep(1)
segment_checker_loop ==
    /\ pcS = "loop"
    /\ IF stop_signal
       THEN pcS' = "done" /\ s' = s
       ELSE pcS' = "sleep" /\ s' = [s EXCEPT !.wake = now + PollInterval]
    /\ UNCHANGED <<fields, fsvars, now, netvars, callvars, wsvars, hbvars, hist>>

\* lines 452-454: the segment is older than segment_time
segment_checker_check ==
    /\ pcS = "sleep"
    /\ now >= s.wake
    /\ IF segment_start_time # NoTime
          /\ now - segment_start_time >= c.segment_time
       THEN pcS' = "sns_name" /\ RotationCalled
       ELSE pcS' = "loop" /\ UNCHANGED <<run, taint, rot>>
    /\ UNCHANGED <<fields, fsvars, now, netvars, callvars, wsvars, hbvars, s,
                   hist0, st0>>

\* lines 303-309 and 314-316: the current file is reported complete, the new
\* name is generated and stored
start_new_segment_name ==
    /\ pcS = "sns_name"
    /\ close_danmu_file(current_segment_file, "start_new_segment")
    /\ LET fn == generate_filename(segment_index) IN
         /\ current_segment_file' = fn
         /\ s' = [s EXCEPT !.filename = fn]
         /\ pcS' = IF fn # None THEN "sns_open" ELSE "loop"
         /\ IF fn # None
            THEN RotationStep /\ rot' = rot
            ELSE RotationReturned(FALSE)
    /\ UNCHANGED <<video_filename, start_time_t, ws, stop_signal, danmu_amount,
                   last_danmu_time, filename, retry, segment_index,
                   segment_start_time, file_lock, now, netvars,
                   callvars, wsvars, hbvars, nframes, decoded, submitted,
                   nstops, nrenames, delivered, ioerrors, arrived, warned, st0>>

\* line 310, create_danmu_file line 286: open(filepath, 'w')
start_new_segment_open ==
    /\ pcS = "sns_open"
    /\ OpenW(s.filename)
    /\ pcS' = "sns_write"
    /\ RotationStep
    /\ UNCHANGED <<fields, now, netvars, callvars, wsvars, hbvars, s, hist0,
                   rot, st0>>

\* create_danmu_file lines 287-290
start_new_segment_write ==
    /\ pcS = "sns_write"
    /\ WriteClose(s.filename, Template)
    /\ pcS' = "sns_time"
    /\ RotationStep
    /\ UNCHANGED <<fields, now, netvars, callvars, wsvars, hbvars, s, hist0,
                   rot, st0>>

\* lines 311-312
start_new_segment_time ==
    /\ pcS = "sns_time"
    /\ segment_start_time' = now
    /\ segment_index' = segment_index + 1
    /\ pcS' = "loop"
    /\ RotationReturned(TRUE)
    /\ UNCHANGED <<video_filename, start_time_t, ws, stop_signal, danmu_amount,
                   last_danmu_time, filename, retry, current_segment_file,
                   file_lock, fsvars, now, netvars, callvars, wsvars, hbvars, s,
                   hist0, st0>>

(***************************************************************************)
(* The recorder.                                                           *)
(***************************************************************************)
\* the websocket thread but for the arrival of a frame and the ack
WsThread ==
    \/ _on_open
    \/ run_forever_end
    \/ write_danmu_create_open
    \/ write_danmu_create_write
    \/ write_danmu_begin
    \/ write_danmu_trunc
    \/ write_danmu_write
    \/ write_danmu_end
    \/ _on_close
    \/ _on_close_wake

SegmentThread ==
    \/ segment_checker_loop
    \/ segment_checker_check
    \/ start_new_segment_name
    \/ start_new_segment_open
    \/ start_new_segment_write
    \/ start_new_segment_time

Next ==
    \/ Tick
    \/ set_video_filename
    \/ start_call
    \/ start_not_live
    \/ start_live
    \/ stop_flag
    \/ stop_close
    \/ _on_message
    \/ _on_message_ack
    \/ WsThread
    \/ write_danmu_ioerror
    \/ _heartbeat
    \/ SegmentThread

Spec == Init /\ [][Next]_vars

(***************************************************************************)
(* Parts of the recorder, each a restriction of Next to some of its        *)
(* actions and inputs.                                                     *)
(***************************************************************************)
\* the file side: start(), chat frames, write_danmu, the rotation and
\* set_video_filename; stop() is not called
NextWriter ==
    \/ Tick
    \/ set_video_filename
    \/ start_call
    \/ start_not_live
    \/ start_live
    \/ OnMessage({"chat"})
    \/ WsThread
    \/ SegmentThread

SpecWriter == Init /\ [][NextWriter]_vars

\* the life cycle: start(), stop(), the threads and chat frames; the video
\* file name is the constructor's
NextLife ==
    \/ Tick
    \/ start_call
    \/ start_not_live
    \/ start_live
    \/ stop_flag
    \/ stop_close
    \/ OnMessage({"chat"})
    \/ WsThread
    \/ _heartbeat
    \/ SegmentThread

SpecLife == Init /\ [][NextLife]_vars

\* the inbound frames: start(enable_segment=False), stop() and frames of
\* every shape
NextFrames ==
    \/ Tick
    \/ StartCall({FALSE})
    \/ start_not_live
    \/ start_live
    \/ stop_flag
    \/ stop_close
    \/ _on_message
    \/ _on_message_ack
    \/ WsThread
    \/ _heartbeat

SpecFrames == Init /\ [][NextFrames]_vars

\* the file side when open() can fail: start(enable_segment=False), chat
\* frames and write_danmu; stop() is not called
NextIO ==
    \/ Tick
    \/ StartCall({FALSE})
    \/ start_not_live
    \/ start_live
    \/ OnMessage({"chat"})
    \/ WsThread
    \/ write_danmu_ioerror

SpecIO == Init /\ [][NextIO]_vars

\* the heartbeat over a longer run of the clock: start(enable_segment=False),
\* the connection, its end and stop(); no frame arrives
HbTick ==
    /\ now < HbMaxTime
    /\ now' = now + 1
    /\ UNCHANGED <<fields, fsvars, netvars, ctx, hist>>

NextHeartbeat ==
    \/ HbTick
    \/ StartCall({FALSE})
    \/ start_not_live
    \/ start_live
    \/ stop_flag
    \/ stop_close
    \/ _on_open
    \/ run_forever_end
    \/ _on_close
    \/ _on_close_wake
    \/ _heartbeat

SpecHeartbeat == Init /\ [][NextHeartbeat]_vars

\* the liveness check of _heartbeat: start(enable_segment=False), the
\* connection, chat and gift frames, write_danmu and the heartbeat loop, in
\* the runs where no thread is held up: the connection is made at once, the
\* heartbeat thread runs as soon as its sleep is over and write_danmu takes
\* no time
LvTick ==
    /\ now < LvMaxTime
    /\ pcH = "run"
    /\ now < h.wake
    /\ ~InFlight
    /\ now' = now + 1
    /\ UNCHANGED <<fields, fsvars, netvars, ctx, hist>>

NextLiveness ==
    \/ LvTick
    \/ StartCall({FALSE})
    \/ start_not_live
    \/ start_live
    \/ _on_open
    \/ OnMessage({"chat", "other"})
    \/ write_danmu_create_open
    \/ write_danmu_create_write
    \/ write_danmu_begin
    \/ write_danmu_trunc
    \/ write_danmu_write
    \/ write_danmu_end
    \/ _heartbeat

SpecLiveness == Init /\ [][NextLiveness]_vars

(***************************************************************************)
(* only_danmu_fixed.py, class DanmuRecorder: the script the recorder is    *)
(* based on.  Its recorder has the fields ws, stop_signal, danmu_amount,   *)
(* last_danmu_time, filename, retry and start_time_t of the state above;   *)
(* start() runs run_forever and the callbacks on the caller's thread, whose *)
(* position is pcW, and _heartbeat runs on a thread of its own.  stop() is *)
(* the stop() above (lines 292-296), _on_open and the end of run_forever   *)
(* are those of the websocket library above.                               *)
(***************************************************************************)
DemoTick ==
    /\ now < DemoMaxTime
    /\ now' = now + 1
    /\ UNCHANGED <<fields, fsvars, netvars, ctx, hist>>

\* start (lines 231-237), called by main()
DanmuRecorder_start ==
    /\ pcC = "idle"
    /\ pcC' = "called"
    /\ pcW' = "d_resolving"
    /\ UNCHANGED <<fields, fsvars, now, netvars, c, pcStop, w, hbvars, segvars,
                   hist>>

\* lines 238-249: the lookup failed or the room is not live; start() returns,
\* and with it every call it is nested in
DanmuRecorder_start_not_live ==
    /\ pcW = "d_resolving"
    /\ pcW' = "done"
    /\ pcC' = "returned"
    /\ UNCHANGED <<fields, fsvars, now, netvars, c, pcStop, w, hbvars, segvars,
                   hist>>

\* lines 253-267: start_time is set once, the file is named after it and
\* opened with 'w'
DanmuRecorder_start_open ==
    /\ pcW = "d_resolving"
    /\ start_time_t' = IF start_time_t = NoTime THEN now ELSE start_time_t
    /\ filename' = StampName
    /\ OpenW(StampName)
    /\ pcW' = "d_header"
    /\ UNCHANGED <<video_filename, ws, stop_signal, danmu_amount,
                   last_danmu_time, retry, segfields, file_lock, now, netvars,
                   callvars, w, hbvars, segvars, hist>>

\* lines 268-288: the header is written, without a closing tag; the
\* WebSocketApp is created and run_forever called.  The heartbeat thread of
\* an earlier connection holds the earlier, closed WebSocketApp: it ends at
\* its next turn.
DanmuRecorder_start_connect ==
    /\ pcW = "d_header"
    /\ WriteClose(filename, Header)
    /\ ws' = "app"
    /\ sock' = "created"
    /\ keep_running' = TRUE
    /\ pcH' = IF pcH = "run" THEN "done" ELSE pcH
    /\ pcW' = "run_forever"
    /\ UNCHANGED <<video_filename, start_time_t, stop_signal, danmu_amount,
                   last_danmu_time, filename, retry, segfields, file_lock, now,
                   sent, nsockets, ncloses, callvars, w, h, segvars, hist>>

RECURSIVE DemoScan(_, _)
\* lines 325-340: the chat messages of the batch from message j on, up to the
\* first one that raises; n counts line 332, cs lists the comments written
DemoScan(msgs, j) ==
    IF j > Len(msgs) THEN [n |-> 0, cs |-> <<>>]
    ELSE IF msgs[j].method # "WebcastChatMessage" THEN DemoScan(msgs, j + 1)
    ELSE IF ~msgs[j].good THEN [n |-> 0, cs |-> <<>>]
    ELSE IF ~msgs[j].nick THEN [n |-> 1, cs |-> <<>>]
    ELSE LET rest == DemoScan(msgs, j + 1) IN
         [n |-> rest.n + 1, cs |-> <<msgs[j].c>> \o rest.cs]

\* _on_message (lines 305-345): the ack is sent first, then every chat
\* message of the batch is appended to the file, opened with 'a'
DanmuRecorder_on_message(shapes) ==
    /\ pcW = "recv"
    /\ keep_running
    /\ nframes < DemoMaxFrames
    /\ nframes' = nframes + 1
    /\ \E shape \in shapes :
         LET message == MkFrame(shape, nframes + 1)
             scan == IF message.ok THEN DemoScan(message.msgs, 1)
                     ELSE [n |-> 0, cs |-> <<>>]
             lines == [i \in 1..Len(scan.cs) |->
                         DLine(scan.cs[i], now - start_time_t, now)]
         IN
         /\ delivered' = Append(delivered, shape)
         /\ arrived' = Append(arrived, now)
         /\ decoded' = IF message.ok THEN decoded \o ChatsOf(message.msgs, 1)
                       ELSE decoded
         /\ submitted' = submitted \o scan.cs
         /\ sent' = IF message.ok /\ message.needAck /\ sock = "open"
                    THEN Append(sent, create_ack_frame(message.logid,
                                                       message.internalExt))
                    ELSE sent
         /\ danmu_amount' = danmu_amount + scan.n
         /\ last_danmu_time' = IF scan.n > 0 THEN now ELSE last_danmu_time
         /\ IF Len(lines) > 0
            THEN /\ files' = [files EXCEPT ![filename] = @ \o lines]
                 /\ fexists' = fexists \cup {filename}
                 /\ wopens' = [wopens EXCEPT ![filename] = @ + Len(lines)]
            ELSE UNCHANGED fsvars
    /\ UNCHANGED <<video_filename, start_time_t, ws, stop_signal, filename,
                   retry, segfields, file_lock, now, sock, keep_running,
                   nsockets, ncloses, ctx, finalized, nstops, nrenames,
                   ioerrors, warned, aux>>

\* a faulty _on_close, for comparison: the test self.retry < 3 of line 365 is
\* missing
on_close_unbounded ==
    /\ pcW = "on_close"
    /\ IF filename # None /\ filename \in fexists
       THEN /\ files' = [files EXCEPT ![filename] = @ \o <<RootClose>>]
            /\ wopens' = [wopens EXCEPT ![filename] = @ + 1]
            /\ finalized' = Append(finalized,
                                   [file |-> filename, by |-> "_on_close"])
            /\ UNCHANGED fexists
       ELSE UNCHANGED <<fsvars, finalized>>
    /\ IF ~stop_signal
       THEN /\ retry' = retry + 1
            /\ w' = [w EXCEPT !.wake = now + DemoRetryDelay]
            /\ pcW' = "backoff"
            /\ pcC' = pcC
       ELSE /\ pcW' = "done"
            /\ pcC' = "returned"
            /\ UNCHANGED <<retry, w>>
    /\ UNCHANGED <<video_filename, start_time_t, ws, stop_signal, danmu_amount,
                   last_danmu_time, filename, segfields, file_lock, now,
                   netvars, c, pcStop, hbvars, segvars, nframes, decoded,
                   submitted, nstops, nrenames, delivered, ioerrors, arrived,
                   warned, aux>>

\* _on_close (lines 351-368): the closing tag is appended; unless stop() was
\* called or three retries were used, retry += 1 and time.sleep(2)
DanmuRecorder_on_close ==
    /\ pcW = "on_close"
    /\ IF filename # None /\ filename \in fexists
       THEN /\ files' = [files EXCEPT ![filename] = @ \o <<RootClose>>]
            /\ wopens' = [wopens EXCEPT ![filename] = @ + 1]
            /\ finalized' = Append(finalized,
                                   [file |-> filename, by |-> "_on_close"])
            /\ UNCHANGED fexists
       ELSE UNCHANGED <<fsvars, finalized>>
    /\ IF ~stop_signal /\ retry < DemoMaxRetry
       THEN /\ retry' = retry + 1
            /\ w' = [w EXCEPT !.wake = now + DemoRetryDelay]
            /\ pcW' = "backoff"
            /\ pcC' = pcC
       ELSE /\ pcW' = "done"
            /\ pcC' = "returned"
            /\ UNCHANGED <<retry, w>>
    /\ UNCHANGED <<video_filename, start_time_t, ws, stop_signal, danmu_amount,
                   last_danmu_time, filename, segfields, file_lock, now,
                   netvars, c, pcStop, hbvars, segvars, nframes, decoded,
                   submitted, nstops, nrenames, delivered, ioerrors, arrived,
                   warned, aux>>

\* _on_close, line 369: the sleep is over, self.start()
DanmuRecorder_on_close_wake ==
    /\ pcW = "backoff"
    /\ now >= w.wake
    /\ pcW' = "d_resolving"
    /\ UNCHANGED <<fields, fsvars, now, netvars, callvars, w, hbvars, segvars,
                   hist>>

\* _heartbeat (lines 371-398), one turn of the loop: with the stop flag set
\* it closes the socket and ends
DanmuRecorder_heartbeat ==
    /\ pcH = "run"
    /\ now >= h.wake
    /\ IF stop_signal
       THEN /\ keep_running' = FALSE
            /\ ncloses' = ncloses + 1
            /\ pcH' = "done"
            /\ UNCHANGED <<sent, h, warned>>
       ELSE IF ~keep_running
       THEN /\ pcH' = "done"
            /\ UNCHANGED <<keep_running, ncloses, sent, h, warned>>
       ELSE /\ sent' = IF h.t % HeartbeatEvery = 0 /\ sock = "open"
                       THEN Append(sent, create_heartbeat_frame)
                       ELSE sent
            /\ warned' = IF h.t % HeartbeatEvery = 0 /\ Silent(h.t)
                         THEN warned + 1
                         ELSE warned
            /\ h' = [t |-> h.t + 1, wake |-> now + PollInterval]
            /\ pcH' = "run"
            /\ UNCHANGED <<keep_running, ncloses>>
    /\ UNCHANGED <<fields, fsvars, now, sock, nsockets, callvars, wsvars,
                   segvars, hist1, aux>>

NextDemo ==
    \/ DemoTick
    \/ DanmuRecorder_start
    \/ DanmuRecorder_start_not_live
    \/ DanmuRecorder_start_open
    \/ DanmuRecorder_start_connect
    \/ _on_open
    \/ run_forever_end
    \/ DanmuRecorder_on_message({"chat2", "chatack"})
    \/ DanmuRecorder_on_close
    \/ DanmuRecorder_on_close_wake
    \/ DanmuRecorder_heartbeat
    \/ stop_flag
    \/ stop_close

SpecDemo == Init /\ [][NextDemo]_vars

(***************************************************************************)
(* Properties.                                                             *)
(***************************************************************************)
\* a complete document: the header, <d> lines, the closing tag
WellFormed(f) ==
    /\ Len(f) >= Len(Header) + 1
    /\ SubSeq(f, 1, Len(Header)) = Header
    /\ f[Len(f)] = RootClose
    /\ \A i \in (Len(Header) + 1)..(Len(f) - 1) : f[i].k = "d"

\* create_danmu_file has opened file n and not yet written it
BeingCreated(n) ==
    \/ pcW = "wd_create_write" /\ w.filepath = n
    \/ pcS = "sns_write" /\ s.filename = n

\* C1: in every reachable state every output file that has been created is
\* the header, then complete <d> lines, then the closing </i> tag.
C1_FilesWellFormed ==
    \A n \in fexists : ~BeingCreated(n) => WellFormed(files[n])

\* C2: a call of write_danmu that returns while a segment is active leaves
\* the active segment's file with the <d> lines it had when the call was made,
\* unchanged, followed by exactly one more <d> line, the comment's.
C2_AppendAddsOneLine ==
    [][(pcW \in {"wd_begin", "wd_end"} /\ pcW' = "recv"
          /\ current_segment_file' # None)
       => LET d == DLinesOf(files'[current_segment_file']) IN
            /\ current_segment_file' \in fexists'
            /\ Len(d) = Len(w.before) + 1
            /\ SubSeq(d, 1, Len(w.before)) = w.before
            /\ d[Len(d)].c = w.data.c]_vars

\* s is a suffix of t
IsSuffix(s_, t) ==
    /\ Len(s_) <= Len(t)
    /\ SubSeq(t, Len(t) - Len(s_) + 1, Len(t)) = s_
\* the comments of run for which a file name could be generated
Named(r) == SelectSeq(r, LAMBDA e : e.named)
CsOf(r) == [i \in 1..Len(r) |-> r[i].c]
\* no call of write_danmu or start_new_segment is in progress and there is
\* an active segment
Settled ==
    /\ ~InFlight
    /\ ~Rotating
    /\ current_segment_file # None
    /\ current_segment_file \in fexists

\* The comments for which a file name could be generated are the last <d>
\* lines of the active file, in the order they were passed to write_danmu.
OrderKeptWhenNamed ==
    Settled => IsSuffix(CsOf(Named(run)), CommentsOf(files[current_segment_file]))

\* C3: the comments passed to write_danmu one after another from the websocket
\* thread, with no rotation in between, are the last <d> lines of the file, in
\* the order they were passed.
C3_AllListed ==
    Settled => IsSuffix(CsOf(run), CommentsOf(files[current_segment_file]))

\* C4: between two frames the comments passed to write_danmu are the
\* WebcastChatMessage records decoded from the socket so far, in order and
\* without omission.
C4_AppendedEqualsDecoded == pcW = "recv" => submitted = decoded

\* comment x is in file n
Has(n, x) == \E i \in 1..Len(files[n]) : files[n][i].k = "d" /\ files[n][i].c = x

\* C5: after a rotation that ran between the append of comment k and the
\* append of comment k+1, k is in the pre-rotation file only, k+1 in the
\* post-rotation file only, and the offset of k+1 counts from the rotation
\* instant.
C5_RotationSplits ==
    rot.st = "done" =>
        /\ Has(rot.pre, rot.k)
        /\ ~Has(rot.post, rot.k)
        /\ Has(rot.post, rot.k1)
        /\ ~Has(rot.pre, rot.k1)
        /\ \A i \in 1..Len(files[rot.post]) :
             files[rot.post][i].k = "d" /\ files[rot.post][i].c = rot.k1
               => files[rot.post][i].off = files[rot.post][i].ts - rot.at

\* C6: a rotation never runs while an append holds the file lock.
C6_RotationExcludesAppend ==
    ~(file_lock = "ws" /\ pcS \in {"sns_open", "sns_write", "sns_time"})

\* the files close_danmu_file has reported complete
FinalizedFiles == {finalized[i].file : i \in 1..Len(finalized)}

\* C7: no step opens for writing (and so truncates) a file that has been
\* finalized.
C7_FinalizedNotReopened ==
    [][\A n \in FinalizedFiles : wopens'[n] = wopens[n]]_vars

\* stop() has been called and has returned
StopReturned == nstops > 0 /\ pcStop = "idle"

\* C8: once stop() has returned no step opens a socket.
C8_StoppedAbsorbing == [][StopReturned => nsockets' = nsockets]_vars

\* every thread of the recorder has ended and stop() has returned
Quiescent ==
    /\ StopReturned
    /\ pcC = "returned"
    /\ pcW = "done"
    /\ pcH \in {"unstarted", "done"}
    /\ pcS \in {"unstarted", "done"}
\* the finalizations of file n reported after stop() was first called
FinalizedSinceStop(n) ==
    {i \in (st0.nfin + 1)..Len(finalized) : finalized[i].file = n}

\* C9: when stop() was called while connecting, streaming or in the backoff
\* wait, then once all loops have ended the socket is closed and the segment
\* file, if there is one, has been finalized.
C9_StopWins ==
    (Quiescent /\ st0.in \in {"connecting", "streaming", "backoff"}) =>
        /\ sock = "closed"
        /\ (FilePath # None /\ FilePath \in fexists)
             => FinalizedSinceStop(FilePath) # {}

\* C10: when stop() was called while streaming and has returned, the segment
\* that was open is finalized at most once.
C10_FinalizedOnce ==
    (StopReturned /\ st0.in = "streaming" /\ st0.seg # None) =>
        Cardinality(FinalizedSinceStop(st0.seg)) <= 1

\* C11: when the backoff wait that follows a non-user-initiated close ends
\* and stop() has not been called, the session thread goes on to a new
\* connection attempt.
C11_BackoffThenReconnect ==
    [][(pcW = "backoff" /\ pcW' # "backoff" /\ ~stop_signal)
       => pcW' = "run_forever"]_vars

\* C12: once three non-user-initiated closes in a row have been handled
\* (retry has reached 3), no connection is established again.
C12_ThreeClosesEnd == [][retry >= DemoMaxRetry => nsockets' = nsockets]_vars

\* start() has returned because the lookup failed or the room is not live
ReturnedNotLive == pcC = "returned" /\ ~c.live

\* C13: when the lookup fails or reports the room as not live, start()
\* returns with no socket opened, no output file created and neither the
\* websocket thread nor the segment_checker thread started, and none of this
\* happens afterwards.
C13_NotLiveStartsNothing ==
    ReturnedNotLive =>
        /\ ws = None
        /\ sock = "none"
        /\ nsockets = 0
        /\ fexists = {}
        /\ pcW = "unstarted"
        /\ pcH = "unstarted"
        /\ pcS = "unstarted"
\* C13, its case: start() has returned for a room that is not live, and
\* stop() has been called on the recorder since
C13_ReturnedNotLive == ReturnedNotLive /\ nstops > 0 /\ now > 1


\* the step in which _on_message receives a frame of one of the shapes S
FrameStep(S) ==
    /\ Len(delivered') = Len(delivered) + 1
    /\ delivered'[Len(delivered')] \in S

\* what a frame that is not recorded leaves alone: the files, the comment
\* counter, the file names and segment fields, the frames sent, the session
FrameIgnored ==
    /\ pcW' = "recv"
    /\ UNCHANGED <<fsvars, danmu_amount, filename, segfields, file_lock,
                   start_time_t, retry, stop_signal, ws, sent, sock,
                   keep_running, submitted>>

AcksFor(i) == {k \in 1..Len(sent) : sent[k].logid = i}
NeedAck(shape) == shape \in {"ack", "chatack"}

\* C15: once a frame has been handled on an open connection, exactly one ack
\* has been sent for it when it asked for one (needAck), with or without a
\* chat message in its batch, and none when it did not.
C15_OneAckPerRequest ==
    (pcW = "recv" /\ sock = "open" /\ keep_running)
        => \A i \in 1..Len(delivered) :
              Cardinality(AcksFor(i)) = IF NeedAck(delivered[i]) THEN 1 ELSE 0

\* C16: the frame sent as an ack has the payloadType 'ack', the logid of the
\* frame it answers, and that frame's internalExt in its payload.
C16_AckFrameFields ==
    [][(pcW = "om_ack" /\ sent' # sent)
       => LET frame == sent'[Len(sent')] IN
          /\ frame.payloadType = "ack"
          /\ frame.logid = w.data.logid
          /\ frame.payload = w.data.internalExt]_vars


\* comment x stands before comment y in file n
Before(n, x, y) ==
    LET cs == CommentsOf(files[n]) IN
    \E a, b \in 1..Len(cs) : a < b /\ cs[a] = x /\ cs[b] = y

\* C17: a comment passed to write_danmu while no file name could be generated
\* is in the active file once the name is set, ahead of every comment passed
\* after it.
C17_EarlyCommentKept ==
    Settled =>
        \A i \in 1..Len(run) :
            ~run[i].named =>
                /\ Has(current_segment_file, run[i].c)
                /\ \A j \in (i + 1)..Len(run) :
                      Before(current_segment_file, run[i].c, run[j].c)


\* the step in which close_danmu_file is called on a file it was called on
\* before
ClosedAgain ==
    /\ Len(finalized') = Len(finalized) + 1
    /\ \E i \in 1..Len(finalized) :
          finalized[i].file = finalized'[Len(finalized')].file

\* C18: calling close_danmu_file on a file it has been called on before
\* changes neither the content of any file nor any field of the recorder.
C18_CloseIdempotent == [][ClosedAgain => UNCHANGED <<fsvars, fields>>]_vars
\* C18, its case: close_danmu_file has been called twice on one file that
\* holds a comment, by a rotation and by _on_close after stop()
C18_ClosedTwice ==
    /\ Len(finalized) = 2
    /\ finalized[1].file = finalized[2].file
    /\ finalized[1].by = "start_new_segment"
    /\ finalized[2].by = "_on_close"
    /\ danmu_amount > 0


\* C19: once an open() of the output file has failed, the recorder is stopped
\* and no comment is written or counted any more.
C19_IOErrorStops ==
    [][ioerrors > 0 => (stop_signal /\ UNCHANGED <<files, danmu_amount>>)]_vars


\* C20: a frame that decodes, holds no chat message and does not ask for an
\* ack leaves the session receiving, creates and changes no file, counts no
\* comment and sends nothing.
C20_OtherFrameIgnored == [][FrameStep({"other"}) => FrameIgnored]_vars
\* C20, its case: a frame holding only a gift message was the last one
\* received, after a comment had been written to an output file
C20_OtherFrameReceived ==
    /\ Len(delivered) = 2
    /\ delivered[2] = "other"
    /\ decoded = <<11>>
    /\ pcW = "recv"
    /\ danmu_amount = 1
    /\ sock = "open"


\* the heartbeat frames sent
Heartbeats == {k \in 1..Len(sent) : sent[k] = create_heartbeat_frame}
\* the turns the heartbeat loop has made
HeartbeatTurns == h.t - HeartbeatStart

\* C21: the heartbeat loop makes at most one turn per time unit and sends a
\* heartbeat on every 10th turn, the first on the turn after the one made
\* when the socket opened: after n turns it has sent one heartbeat for each
\* of the turns 2, 12, 22, ... among them.
C21_HeartbeatEveryTenth ==
    pcH # "unstarted" =>
        /\ Cardinality(Heartbeats) = (HeartbeatTurns + 8) \div HeartbeatEvery
        /\ HeartbeatTurns <= now
\* C21, its case: the session is open, stop() has not been called and the
\* second heartbeat has been sent
C21_SecondHeartbeat ==
    /\ pcH = "run"
    /\ pcW = "recv"
    /\ ~stop_signal
    /\ keep_running
    /\ Cardinality(Heartbeats) = 2


\* the shapes of frame that hold a chat message
ChatShapes == {"chat", "chat2", "chatack"}
\* the time the last frame of one of the shapes S was delivered at, 0 when
\* there is none
LastArrival(S) ==
    LET I == {i \in 1..Len(delivered) : delivered[i] \in S} IN
    IF I = {} THEN 0 ELSE arrived[CHOOSE i \in I : \A j \in I : j <= i]
\* the turn of the heartbeat loop in which the liveness check of lines
\* 553-556 is made
CheckTurn == pcH = "run" /\ h'.t = h.t + 1 /\ h.t % HeartbeatEvery = 0
\* the check logs the warning
Warns == warned' = warned + 1
\* the check leaves the session as it is
SessionKept == UNCHANGED <<sock, keep_running, ws, stop_signal, wsvars>>

C23_TimersIdleAfterStop ==
    [][stop_signal
       => /\ pcS \in {"loop", "sleep"} => pcS' # "sns_name"
          /\ (pcH = "run" /\ <<pcH, h>>' # <<pcH, h>>) => sent' = sent]_vars


\* C24: the offset of a written comment is its time stamp minus the start
\* time of the recording when start() was called with enable_segment=False,
\* and minus the start time of the segment it is written to when it was
\* called with enable_segment=True.
C24_OffsetBasis ==
    (pcC = "returned" /\ c.live /\ Settled) =>
        \A i \in 1..Len(files[current_segment_file]) :
            LET l == files[current_segment_file][i] IN
            l.k = "d" =>
                l.off = l.ts - (IF c.enable_segment THEN segment_start_time
                                ELSE start_time_t)


\* C25: retry stays within 0..3; it changes only by +1, in the close callback
\* of a close that stop() did not ask for; nothing resets it, so that no more
\* than 3 connections follow the first over the life of the recorder.
C25_RetryBounded ==
    [][/\ retry' \in 0..DemoMaxRetry
       /\ retry' # retry => /\ retry' = retry + 1
                            /\ pcW = "on_close"
                            /\ ~stop_signal
       /\ nsockets' <= 1 + DemoMaxRetry]_vars
\* C25, its case: the three retries are used up, three connections have
\* followed the first, and the close that followed stop() has been handled
C25_RetriesUsedUp ==
    /\ retry = DemoMaxRetry
    /\ nsockets = 1 + DemoMaxRetry
    /\ stop_signal
    /\ pcW = "done"


RECURSIVE LinesIn(_)
\* the number of <d> lines in the files S
LinesIn(S) ==
    IF S = {} THEN 0
    ELSE LET n == CHOOSE x \in S : TRUE IN
         Len(DLinesOf(files[n])) + LinesIn(S \ {n})

\* C26: whenever no call of write_danmu or start_new_segment is in progress,
\* danmu_amount is the number of <d> lines in the output files.
C26_CounterEqualsLines ==
    (~InFlight /\ ~Rotating) => danmu_amount = LinesIn(fexists)


\* C27: every <d> line of every output file has an offset of 0 or more.
C27_OffsetsNonNegative ==
    \A n \in fexists : \A i \in 1..Len(files[n]) :
        files[n][i].k = "d" => files[n][i].off >= 0


\* start_new_segment has stored the name of the new segment (line 309) and
\* not yet its start time (line 311)
PairMixed == pcS \in {"sns_open", "sns_write", "sns_time"}

\* C28: write_danmu never reads current_segment_file and segment_start_time
\* (lines 349-359) while they are those of two different segments.
C28_PairNotMixed ==
    [][(pcW = "wd_begin" /\ pcW' = "wd_trunc") => ~PairMixed]_vars


\* the session has ended by a close that stop() did not ask for, and the
\* close callback has run
ClosedByPeer == sock = "closed" /\ ~stop_signal /\ pcW \in {"backoff", "done"}

\* C29: once the session has ended by a close that stop() did not ask for,
\* segment_checker calls start_new_segment no more and no output file is
\* created or truncated.
C29_NoRotationAfterClose ==
    [][ClosedByPeer => (pcS' # "sns_name" /\ UNCHANGED <<fexists, wopens>>)]_vars

====
